---------------------------- MODULE Spec2Model ----------------------------
(***************************************************************************)
(* Gesture Beats: gesture classification (vision/gestures.py), parameter   *)
(* mapping (audio/paramMap.py) and the frame loop (main.py).               *)
(*                                                                         *)
(* Numbers.  The program computes in float64.  The model computes in exact *)
(* rationals <<n, d>> (d > 0, lowest terms), so that equalities such as    *)
(* "confidence is exactly 0.6" are decided as the real-number reading of   *)
(* the code decides them.  The only irrational operation, the Euclidean    *)
(* norm, is rounded down to a multiple of 1/d of its (reduced) argument    *)
(* and is exact whenever the argument is the square of a rational.         *)
(***************************************************************************)
EXTENDS Integers, Sequences, FiniteSets, TLC

----------------------------------------------------------------------------
(* Rational arithmetic: the float operators +, -, *, /, <, <= of the code. *)

Abs(i) == IF i < 0 THEN -i ELSE i

RECURSIVE Gcd(_, _)
Gcd(a, b) == IF b = 0 THEN a ELSE Gcd(b, a % b)

Rat(n, d) ==
    LET s == IF d < 0 THEN -1 ELSE 1
        g == Gcd(Abs(n), Abs(d))
    IN  <<(s * n) \div g, (s * d) \div g>>

RInt(i) == <<i, 1>>
RAdd(a, b) == Rat(a[1] * b[2] + b[1] * a[2], a[2] * b[2])
RSub(a, b) == Rat(a[1] * b[2] - b[1] * a[2], a[2] * b[2])
RMul(a, b) == Rat(a[1] * b[1], a[2] * b[2])
RDiv(a, b) == Rat(a[1] * b[2], a[2] * b[1])
RLt(a, b) == a[1] * b[2] < b[1] * a[2]
RLe(a, b) == a[1] * b[2] <= b[1] * a[2]
RMin(a, b) == IF RLe(a, b) THEN a ELSE b
RMax(a, b) == IF RLe(a, b) THEN b ELSE a

\* np.clip(value, lo, hi) == minimum(maximum(value, lo), hi)
Clip(value, lo, hi) == RMin(RMax(value, lo), hi)

\* floor of the square root of a natural number, by bisection
RECURSIVE ISqrtIn(_, _, _)
ISqrtIn(n, lo, hi) ==
    IF lo >= hi THEN lo
    ELSE LET mid == (lo + hi + 1) \div 2
         IN  IF mid * mid <= n THEN ISqrtIn(n, mid, hi)
                               ELSE ISqrtIn(n, lo, mid - 1)

ISqrt(n) == ISqrtIn(n, 0, IF n < 46340 THEN n ELSE 46340)

\* sqrt(n/d) = sqrt(n*d)/d
RSqrt(q) == Rat(ISqrt(q[1] * q[2]), q[2])

\* np.linalg.norm(a - b) for 3-vectors
Dist(a, b) ==
    LET dx == RSub(a[1], b[1])
        dy == RSub(a[2], b[2])
        dz == RSub(a[3], b[3])
    IN  RSqrt(RAdd(RAdd(RMul(dx, dx), RMul(dy, dy)), RMul(dz, dz)))

----------------------------------------------------------------------------
(* config.py *)

SMOOTHING_WINDOW == 5
GESTURE_BUFFER_LEN == 5
MAX_NUM_HANDS == 2
GESTURE_CONFIDENCE_MIN == Rat(6, 10)
VOLUME_MIN == RInt(0)
VOLUME_MAX == RInt(1)
PITCH_MIN == RInt(50)
PITCH_MAX == RInt(2000)
TEMPO_MIN == RInt(60)
TEMPO_MAX == RInt(200)
REVERB_MIN == RInt(0)
REVERB_MAX == RInt(1)
HAND_X_MIN == Rat(1, 10)
HAND_X_MAX == Rat(9, 10)
HAND_Y_MIN == Rat(1, 10)
HAND_Y_MAX == Rat(9, 10)

----------------------------------------------------------------------------
(* ParameterMapper._map_range *)

\* _map_range without the clamp of line 116
MapRangeNoClamp(value, in_min, in_max, out_min, out_max) ==
    LET normalized == IF in_max = in_min THEN Rat(1, 2)
                      ELSE RDiv(RSub(value, in_min), RSub(in_max, in_min))
    IN  RAdd(out_min, RMul(normalized, RSub(out_max, out_min)))

MapRange(value, in_min, in_max, out_min, out_max) ==
    LET v == Clip(value, in_min, in_max)
        normalized == IF in_max = in_min THEN Rat(1, 2)
                      ELSE RDiv(RSub(v, in_min), RSub(in_max, in_min))
    IN  RAdd(out_min, RMul(normalized, RSub(out_max, out_min)))

----------------------------------------------------------------------------
(* vision/gestures.py *)

\* A Hand, as far as the classifier and the mapper read it: the centroid
\* get_center() returns, np.std of get_finger_tips(), the label, and the
\* measurements _extract_features takes from the landmarks (the five
\* extension tests, the two orientation tests and the clamped spread).
MkHand(label, center, tips_std, te, ie, me, re, pe, tup, ip, spread) ==
    [label |-> label, center |-> center, tips_std |-> tips_std,
     thumb_extended |-> te, index_extended |-> ie, middle_extended |-> me,
     ring_extended |-> re, pinky_extended |-> pe,
     thumb_pointing_up |-> tup, index_pointing |-> ip,
     finger_spread |-> spread]

BoolToInt(b) == IF b THEN 1 ELSE 0

\* the feature dictionary of _extract_features: the composite flags are
\* computed from the extension tests as lines 118-120 compute them.  The
\* normalized distances and finger_curl are in no profile and are left out.
ExtractFeatures(hand) ==
    [finger_spread |-> hand.finger_spread,
     thumb_extended |-> hand.thumb_extended,
     index_extended |-> hand.index_extended,
     middle_extended |-> hand.middle_extended,
     ring_extended |-> hand.ring_extended,
     pinky_extended |-> hand.pinky_extended,
     fingers_extended |->
        BoolToInt(hand.index_extended) + BoolToInt(hand.middle_extended)
        + BoolToInt(hand.ring_extended) + BoolToInt(hand.pinky_extended) >= 4,
     other_fingers_closed |->
        ~hand.middle_extended /\ ~hand.ring_extended /\ ~hand.pinky_extended,
     ring_pinky_closed |-> ~hand.ring_extended /\ ~hand.pinky_extended,
     thumb_pointing_up |-> hand.thumb_pointing_up,
     index_pointing |-> hand.index_pointing]

\* profile entries: a boolean expectation or an inclusive range
B(key, expected) == [key |-> key, kind |-> "bool", expected |-> expected]
R(key, lo, hi) == [key |-> key, kind |-> "range", lo |-> lo, hi |-> hi]

\* self.gesture_profiles, in insertion order
gesture_profiles ==
    << [name |-> "open_palm",
        entries |-> << R("finger_spread", Rat(6, 10), Rat(10, 10)),
                       B("thumb_extended", TRUE),
                       B("fingers_extended", TRUE) >>],
       [name |-> "fist",
        entries |-> << R("finger_spread", Rat(0, 10), Rat(3, 10)),
                       B("thumb_extended", FALSE),
                       B("fingers_extended", FALSE) >>],
       [name |-> "peace_sign",
        entries |-> << B("index_extended", TRUE),
                       B("middle_extended", TRUE),
                       B("ring_pinky_closed", TRUE),
                       R("finger_spread", Rat(4, 10), Rat(8, 10)) >>],
       [name |-> "thumbs_up",
        entries |-> << B("thumb_extended", TRUE),
                       B("other_fingers_closed", TRUE),
                       B("thumb_pointing_up", TRUE) >>],
       [name |-> "pointing",
        entries |-> << B("index_extended", TRUE),
                       B("other_fingers_closed", TRUE),
                       B("index_pointing", TRUE) >> ] >>

\* partial credit of a range entry missed by `distance`, without the max(0, .)
PartialCreditUnclamped(distance) == RSub(RInt(1), RMul(distance, RInt(2)))

\* max(0, 1.0 - distance * 2)
PartialCredit(distance) ==
    RMax(RInt(0), RSub(RInt(1), RMul(distance, RInt(2))))

\* the loop body of _match_gesture with the boolean test written as
\* "actual_value and expected_value": a false flag never scores
EntryScoreTruthy(features, e) ==
    IF e.key \notin DOMAIN features THEN RInt(0)
    ELSE LET actual_value == features[e.key]
         IN  IF e.kind = "bool"
             THEN (IF actual_value /\ e.expected THEN RInt(1) ELSE RInt(0))
             ELSE IF RLe(e.lo, actual_value) /\ RLe(actual_value, e.hi)
                  THEN RInt(1)
                  ELSE IF RLt(actual_value, e.lo)
                       THEN PartialCredit(RSub(e.lo, actual_value))
                       ELSE PartialCredit(RSub(actual_value, e.hi))

\* the points one profile entry adds to score
EntryScore(features, e) ==
    IF e.key \notin DOMAIN features THEN RInt(0)
    ELSE LET actual_value == features[e.key]
         IN  IF e.kind = "bool"
             THEN (IF actual_value = e.expected THEN RInt(1) ELSE RInt(0))
             ELSE IF RLe(e.lo, actual_value) /\ RLe(actual_value, e.hi)
                  THEN RInt(1)
                  ELSE IF RLt(actual_value, e.lo)
                       THEN PartialCredit(RSub(e.lo, actual_value))
                       ELSE PartialCredit(RSub(actual_value, e.hi))

RECURSIVE SumScores(_, _, _)
SumScores(features, entries, i) ==
    IF i > Len(entries) THEN RInt(0)
    ELSE RAdd(EntryScore(features, entries[i]),
              SumScores(features, entries, i + 1))

\* GestureClassifier._match_gesture
MatchGesture(features, profile) ==
    LET max_score == Len(profile.entries)
    IN  IF max_score > 0
        THEN RDiv(SumScores(features, profile.entries, 1), RInt(max_score))
        ELSE RInt(0)

\* the loop test of classify with >= in place of >
ScoreBeatsOrTies(score, best_score) == RLe(best_score, score)

\* the loop test of classify: score > best_score
ScoreBeats(score, best_score) == RLt(best_score, score)

\* the loop of classify over profiles i..5, from (best_gesture, best_score)
RECURSIVE BestFrom(_, _, _)
BestFrom(features, i, best) ==
    IF i > Len(gesture_profiles) THEN best
    ELSE LET score == MatchGesture(features, gesture_profiles[i])
         IN  BestFrom(features, i + 1,
                      IF ScoreBeats(score, best.score)
                      THEN [gesture |-> gesture_profiles[i].name, score |-> score]
                      ELSE best)

\* GestureClassifier.classify; best_gesture None is written "None"
Classify(hand) ==
    LET best == BestFrom(ExtractFeatures(hand), 1,
                         [gesture |-> "None", score |-> RInt(0)])
    IN  [name |-> IF best.gesture = "None" THEN "unknown" ELSE best.gesture,
         confidence |-> best.score,
         hand_label |-> hand.label]

----------------------------------------------------------------------------
(* audio/paramMap.py *)

\* deque.append that forgets to evict: the buffer grows past maxlen
DequeAppendNoEvict(buf, x, maxlen) == Append(buf, x)

\* deque(maxlen=maxlen).append(x)
DequeAppend(buf, x, maxlen) ==
    IF Len(buf) >= maxlen THEN Append(Tail(buf), x) ELSE Append(buf, x)

RECURSIVE SumCoord(_, _, _)
SumCoord(buf, c, i) ==
    IF i > Len(buf) THEN RInt(0)
    ELSE RAdd(buf[i][c], SumCoord(buf, c, i + 1))

\* np.mean(list(buf), axis=0) that leaves the newest sample out
MeanPosStale(buf) ==
    IF Len(buf) = 1 THEN buf[1]
    ELSE [c \in 1..3 |->
            RDiv(SumCoord(SubSeq(buf, 1, Len(buf) - 1), c, 1),
                 RInt(Len(buf) - 1))]

\* np.mean(list(buf), axis=0)
MeanPos(buf) == [c \in 1..3 |-> RDiv(SumCoord(buf, c, 1), RInt(Len(buf)))]

\* smoothed_pos of lines 36-39, from the buffer after the push
SmoothedPos(buf, hand_center) ==
    IF Len(buf) > 0 THEN MeanPos(buf) ELSE hand_center

\* volume of lines 43-52 with the output range not swapped
VolumeOfDirect(smoothed) ==
    MapRange(Clip(smoothed[2], HAND_Y_MIN, HAND_Y_MAX),
             HAND_Y_MIN, HAND_Y_MAX, VOLUME_MIN, VOLUME_MAX)

\* volume of lines 43-52
VolumeOf(smoothed) ==
    MapRange(Clip(smoothed[2], HAND_Y_MIN, HAND_Y_MAX),
             HAND_Y_MIN, HAND_Y_MAX, VOLUME_MAX, VOLUME_MIN)

\* pitch of lines 42, 57-63
PitchOf(smoothed) ==
    MapRange(Clip(smoothed[1], HAND_X_MIN, HAND_X_MAX),
             HAND_X_MIN, HAND_X_MAX, PITCH_MIN, PITCH_MAX)

\* reverb of lines 68-75
ReverbOf(smoothed) ==
    MapRange(smoothed[3], Rat(-1, 2), Rat(1, 2), REVERB_MIN, REVERB_MAX)

\* the test of line 78 with >= in place of >
ConfidentOrEqual(gesture) == RLe(GESTURE_CONFIDENCE_MIN, gesture.confidence)

\* gesture.confidence > Config.GESTURE_CONFIDENCE_MIN
Confident(gesture) == RLt(GESTURE_CONFIDENCE_MIN, gesture.confidence)

\* self.gesture_to_sound
gesture_to_sound ==
    [open_palm |-> 0, fist |-> 1, peace_sign |-> 2, thumbs_up |-> 3,
     pointing |-> 4, unknown |-> 0]

\* self.gesture_to_sound.get(name, 0)
SoundOf(name) ==
    IF name \in DOMAIN gesture_to_sound THEN gesture_to_sound[name] ELSE 0

\* tempo of lines 86-101 measuring against the newest raw sample
TempoOfNewest(buf, smoothed) ==
    IF Len(buf) >= 2
    THEN MapRange(Dist(smoothed, buf[Len(buf)]), RInt(0), Rat(1, 10),
                  TEMPO_MIN, TEMPO_MAX)
    ELSE RDiv(RAdd(TEMPO_MIN, TEMPO_MAX), RInt(2))

\* tempo of lines 86-101, from the buffer after the push
TempoOf(buf, smoothed) ==
    IF Len(buf) >= 2
    THEN MapRange(Dist(smoothed, buf[Len(buf) - 1]), RInt(0), Rat(1, 10),
                  TEMPO_MIN, TEMPO_MAX)
    ELSE RDiv(RAdd(TEMPO_MIN, TEMPO_MAX), RInt(2))

\* hand_size without the min(1.0, ...) of line 108
HandSizeOfUnclamped(hand) == RDiv(hand.tips_std, Rat(2, 10))

\* hand_size of lines 104-109; get_finger_tips() always has five rows
HandSizeOf(hand) == RMin(RInt(1), RDiv(hand.tips_std, Rat(2, 10)))

\* the dictionary map_hand_to_parameters returns
ParamsOf(buf, smoothed, hand, gesture) ==
    LET always == [volume |-> VolumeOf(smoothed),
                   pitch |-> PitchOf(smoothed),
                   reverb |-> ReverbOf(smoothed),
                   tempo |-> TempoOf(buf, smoothed),
                   hand_size |-> HandSizeOf(hand)]
    IN  IF Confident(gesture)
        THEN ("sound" :> SoundOf(gesture.name)) @@ always
        ELSE always

\* the labels of a buffer in order of first occurrence: the key order of
\* Counter(buf)
RECURSIVE KeysFrom(_, _, _)
KeysFrom(buf, i, seen) ==
    IF i > Len(buf) THEN seen
    ELSE KeysFrom(buf, i + 1,
                  IF \E k \in 1..Len(seen) : seen[k] = buf[i]
                  THEN seen ELSE Append(seen, buf[i]))

CountOf(buf, label) == Cardinality({i \in 1..Len(buf) : buf[i] = label})

\* most_common(1) that lets a later key win a tie
MostCommonLast(buf) ==
    IF Len(buf) = 0 THEN "None"
    ELSE LET keys == KeysFrom(buf, 1, <<>>)
             best == CHOOSE k \in 1..Len(keys) :
                        /\ \A j \in 1..Len(keys) :
                              CountOf(buf, keys[j]) <= CountOf(buf, keys[k])
                        /\ \A j \in (k + 1)..Len(keys) :
                              CountOf(buf, keys[j]) < CountOf(buf, keys[k])
         IN  keys[best]

\* get_most_common_gesture: Counter(buf).most_common(1)[0][0], which is
\* max() over the items in key order, so the first key with the greatest
\* count; None is written "None"
MostCommon(buf) ==
    IF Len(buf) = 0 THEN "None"
    ELSE LET keys == KeysFrom(buf, 1, <<>>)
             best == CHOOSE k \in 1..Len(keys) :
                        /\ \A j \in 1..Len(keys) :
                              CountOf(buf, keys[j]) <= CountOf(buf, keys[k])
                        /\ \A j \in 1..(k - 1) :
                              CountOf(buf, keys[j]) < CountOf(buf, keys[k])
         IN  keys[best]

----------------------------------------------------------------------------
(* audio/engine.py *)

\* min_update_interval = 1/30 s, in clock ticks of 1/60 s
MIN_UPDATE_TICKS == 2

\* the test of line 54 with <= in place of <
RateLimitedInclusive(current_time, last) ==
    current_time - last <= MIN_UPDATE_TICKS

\* the test of Engine.update, line 54
RateLimited(current_time, last) == current_time - last < MIN_UPDATE_TICKS

\* the OSC messages of lines 65-92 in sending order, as <<address, value>>;
\* the /note message carries frequency_to_midi(pitch), whose value is not
\* modelled
Messages(parameters) ==
    LET has(k) == k \in DOMAIN parameters
        one(k, a) == IF has(k) THEN << <<a, parameters[k]>> >> ELSE << >>
    IN  one("volume", "/volume")
        \o one("pitch", "/pitch")
        \o (IF has("pitch") THEN << <<"/note">> >> ELSE << >>)
        \o one("tempo", "/tempo")
        \o one("reverb", "/reverb")
        \o one("sound", "/sound")
        \o one("hand_size", "/hand_size")

----------------------------------------------------------------------------
(* State *)

VARIABLES
    position_buffer,   \* ParameterMapper.position_buffer
    gesture_buffer,    \* ParameterMapper.gesture_buffer
    params,            \* what the last map_hand_to_parameters returned
    smoothed_pos,      \* smoothed_pos of the last call (<<>> before any)
    calls,             \* number of direct calls made (mapper specifications)
    pushed,            \* centroid and gesture of every direct call, in order
    prev_call,         \* smoothed_pos and params of the direct call before the last
    pc,                \* position of musicGesture.run
    hands,             \* hands of the current frame
    gestures,          \* gestures of the current frame
    idx,               \* index of the next hand of the zip loop
    all_params,        \* all_params of run
    frame_start,       \* the two buffers as they were when the frame was read
    returned,          \* what each map call of the current frame returned
    updates,           \* the arguments of the update calls of the current frame
    clock,             \* time.time(), in ticks
    last_update_time,  \* Engine.last_update_time
    sent,              \* the messages of the last update that sent any
    send_times,        \* the clock readings of the updates that sent messages
    arg,               \* argument of a function applied on its own
    ret                \* its result (<<>> before the call)

mapperVars == <<position_buffer, gesture_buffer, params, smoothed_pos>>
directVars == <<calls, pushed, prev_call>>
loopVars == <<pc, hands, gestures, idx, all_params, frame_start, returned,
              updates>>
engineVars == <<clock, last_update_time, sent, send_times>>
pureVars == <<arg, ret>>
vars == <<mapperVars, directVars, loopVars, engineVars, pureVars>>

\* the state after musicGesture.__init__ (ParameterMapper(), Engine())
InitMapper ==
    /\ position_buffer = << >>
    /\ gesture_buffer = << >>
    /\ params = << >>
    /\ smoothed_pos = << >>

InitDirect == calls = 0 /\ pushed = << >> /\ prev_call = << >>

InitLoop ==
    /\ pc = "read"
    /\ hands = << >>
    /\ gestures = << >>
    /\ idx = 1
    /\ all_params = << >>
    /\ frame_start = [position |-> << >>, gesture |-> << >>]
    /\ returned = << >>
    /\ updates = << >>

InitEngine ==
    clock = 0 /\ last_update_time = 0 /\ sent = << >> /\ send_times = << >>

InitPure == arg = << >> /\ ret = << >>

----------------------------------------------------------------------------
(* ParameterMapper.map_hand_to_parameters *)

MapHandToParameters(hand, gesture) ==
    LET buf == DequeAppend(position_buffer, hand.center, SMOOTHING_WINDOW)
        smoothed == SmoothedPos(buf, hand.center)
    IN  /\ position_buffer' = buf
        /\ gesture_buffer' =
              IF Confident(gesture)
              THEN DequeAppend(gesture_buffer, gesture.name, GESTURE_BUFFER_LEN)
              ELSE gesture_buffer
        /\ params' = ParamsOf(buf, smoothed, hand, gesture)
        /\ smoothed_pos' = smoothed

----------------------------------------------------------------------------
(* Inputs *)

Point(x10, y10, z10) == <<Rat(x10, 10), Rat(y10, 10), Rat(z10, 10)>>

\* a hand at a centroid, fingers closed
HandAt(center) ==
    MkHand("Right", center, Rat(1, 20), FALSE, FALSE, FALSE, FALSE, FALSE,
           FALSE, FALSE, Rat(2, 10))

MkGesture(name, confidence) ==
    [name |-> name, confidence |-> confidence, hand_label |-> "Right"]

\* direct calls of the mapper: centroids on, inside and outside the active
\* rectangle, with gestures above, at and below the recording threshold
MapperInputs ==
    { [hand |-> HandAt(Point(0, 1, -6)), gesture |-> MkGesture("fist", Rat(9, 10))],
      [hand |-> HandAt(Point(10, 9, 5)), gesture |-> MkGesture("open_palm", Rat(1, 2))],
      [hand |-> HandAt(Point(5, 5, 0)), gesture |-> MkGesture("peace_sign", Rat(3, 4))],
      [hand |-> HandAt(Point(5, 6, 1)), gesture |-> MkGesture("pointing", Rat(6, 10))],
      [hand |-> HandAt(Point(5, 0, 0)), gesture |-> MkGesture("thumbs_up", RInt(1))] }

GestureNames ==
    {"open_palm", "fist", "peace_sign", "thumbs_up", "pointing", "unknown", "wave"}

SoundInputs ==
    { [hand |-> HandAt(Point(5, 5, 0)), gesture |-> MkGesture(n, c)] :
        n \in GestureNames, c \in {Rat(1, 2), Rat(6, 10), Rat(7, 10)} }

MaxCalls == 6
MaxSoundCalls == 2

----------------------------------------------------------------------------
(* Direct calls of ParameterMapper.map_hand_to_parameters *)

DirectCall(in, bound) ==
    /\ calls < bound
    /\ MapHandToParameters(in.hand, in.gesture)
    /\ calls' = calls + 1
    /\ pushed' = Append(pushed, [center |-> in.hand.center,
                                 gesture |-> in.gesture])
    /\ prev_call' = IF calls = 0 THEN << >>
                    ELSE << [smoothed |-> smoothed_pos, params |-> params] >>
    /\ UNCHANGED <<loopVars, engineVars, pureVars>>

InitAll == InitMapper /\ InitDirect /\ InitLoop /\ InitEngine /\ InitPure

MapperCall == \E in \in MapperInputs : DirectCall(in, MaxCalls)

SpecMapper == InitAll /\ [][MapperCall]_vars

SoundCall == \E in \in SoundInputs : DirectCall(in, MaxSoundCalls)

SpecSound == InitAll /\ [][SoundCall]_vars

----------------------------------------------------------------------------
(* ParameterMapper._map_range as a pure function *)

GridSpan == 2

RangeValues == {Rat(k, 4) : k \in (0 - GridSpan)..(4 + GridSpan)}
RangeBounds == {RInt(0), Rat(1, 10), Rat(1, 2), Rat(9, 10)}
OutRanges ==
    { <<VOLUME_MAX, VOLUME_MIN>>, <<PITCH_MIN, PITCH_MAX>>,
      <<TEMPO_MIN, TEMPO_MAX>>, <<REVERB_MIN, REVERB_MAX>>,
      <<RInt(1), RInt(1)>> }

InitRange ==
    /\ InitMapper /\ InitDirect /\ InitLoop /\ InitEngine
    /\ ret = << >>
    /\ arg \in { [value |-> v, value2 |-> w, in_min |-> a, in_max |-> b,
                  out_min |-> o[1], out_max |-> o[2]] :
                 v \in RangeValues, w \in RangeValues,
                 a \in RangeBounds, b \in RangeBounds, o \in OutRanges }
    /\ RLe(arg.in_min, arg.in_max)

ApplyMapRange ==
    /\ ret = << >>
    /\ ret' = [r1 |-> MapRange(arg.value, arg.in_min, arg.in_max,
                               arg.out_min, arg.out_max),
               r2 |-> MapRange(arg.value2, arg.in_min, arg.in_max,
                               arg.out_min, arg.out_max)]
    /\ UNCHANGED <<mapperVars, directVars, loopVars, engineVars, arg>>

SpecRange == InitRange /\ [][ApplyMapRange]_vars

----------------------------------------------------------------------------
(* GestureClassifier.classify as a pure function *)

SpreadSteps == 20

FeatureHands ==
    { MkHand("Right", Point(5, 5, 0), Rat(1, 20), te, ie, me, re, pe, tup, ip,
             Rat(k, SpreadSteps)) :
        te \in BOOLEAN, ie \in BOOLEAN, me \in BOOLEAN, re \in BOOLEAN,
        pe \in BOOLEAN, tup \in BOOLEAN, ip \in BOOLEAN, k \in 0..SpreadSteps }

InitClassify ==
    /\ InitMapper /\ InitDirect /\ InitLoop /\ InitEngine
    /\ ret = << >>
    /\ arg \in FeatureHands

ApplyClassify ==
    /\ ret = << >>
    /\ ret' = Classify(arg)
    /\ UNCHANGED <<mapperVars, directVars, loopVars, engineVars, arg>>

SpecClassify == InitClassify /\ [][ApplyClassify]_vars

----------------------------------------------------------------------------
(* ParameterMapper.get_most_common_gesture on every buffer content *)

HistoryLabels == {"open_palm", "fist", "peace_sign"}

InitHistory ==
    /\ InitDirect /\ InitLoop /\ InitEngine /\ InitPure
    /\ position_buffer = << >>
    /\ params = << >>
    /\ smoothed_pos = << >>
    /\ gesture_buffer \in
          UNION { [1..n -> HistoryLabels] : n \in 0..GESTURE_BUFFER_LEN }

GetMostCommonGesture ==
    /\ ret = << >>
    /\ ret' = [value |-> MostCommon(gesture_buffer)]
    /\ UNCHANGED <<mapperVars, directVars, loopVars, engineVars, arg>>

SpecHistory == InitHistory /\ [][GetMostCommonGesture]_vars

----------------------------------------------------------------------------
(* main.py: musicGesture.run with Engine(use_osc=True) *)

\* the hands the detector can report: a closed fist (classified fist with
\* confidence 1) and a half-open hand whose best profile, open_palm, scores
\* exactly 0.6
DetectedHands ==
    { MkHand("Left", Point(3, 2, 0), Rat(1, 20), FALSE, FALSE, FALSE, FALSE,
             FALSE, FALSE, FALSE, Rat(2, 10)),
      MkHand("Right", Point(5, 5, -2), Rat(1, 10), TRUE, FALSE, TRUE, FALSE,
             TRUE, FALSE, FALSE, Rat(1, 2)) }

\* Detector.detect returns at most max_num_hands hands
HandLists == UNION { [1..n -> DetectedHands] : n \in 0..MAX_NUM_HANDS }

MaxClock == 2

\* time passes while cap.read() waits for the camera
Tick ==
    /\ pc = "read"
    /\ clock < MaxClock
    /\ clock' = clock + 1
    /\ UNCHANGED <<mapperVars, directVars, loopVars, last_update_time, sent,
                   send_times, pureVars>>

\* a frame read by a loop that resets the mapper's buffers when no hand is
\* detected
ReadFrameResetting ==
    /\ pc = "read"
    /\ \E hs \in HandLists :
          /\ hands' = hs
          /\ gestures' = [i \in 1..Len(hs) |-> Classify(hs[i])]
          /\ position_buffer' = IF Len(hs) = 0 THEN << >> ELSE position_buffer
          /\ gesture_buffer' = IF Len(hs) = 0 THEN << >> ELSE gesture_buffer
    /\ all_params' = << >>
    /\ idx' = 1
    /\ frame_start' = [position |-> position_buffer', gesture |-> gesture_buffer']
    /\ returned' = << >>
    /\ updates' = << >>
    /\ pc' = "map"
    /\ UNCHANGED <<params, smoothed_pos, directVars, engineVars, pureVars>>

\* lines 51-65: a frame is read, hands are detected and classified
ReadFrame ==
    /\ pc = "read"
    /\ \E hs \in HandLists :
          /\ hands' = hs
          /\ gestures' = [i \in 1..Len(hs) |-> Classify(hs[i])]
    /\ all_params' = << >>
    /\ idx' = 1
    /\ frame_start' = [position |-> position_buffer, gesture |-> gesture_buffer]
    /\ returned' = << >>
    /\ updates' = << >>
    /\ pc' = "map"
    /\ UNCHANGED <<mapperVars, directVars, engineVars, pureVars>>

\* lines 51-54 and 117-118: the camera fails, the loop ends
ReadFail ==
    /\ pc = "read"
    /\ pc' = "done"
    /\ UNCHANGED <<mapperVars, directVars, hands, gestures, idx, all_params,
                   frame_start, returned, updates, engineVars, pureVars>>

\* all_params after one more hand, were the dictionaries merged
KeepMerged(old, new) == new @@ old

\* line 68: all_params = params
KeepLast(old, new) == new

\* lines 66-68: one iteration of the zip loop
MapNextHand ==
    /\ pc = "map"
    /\ idx <= Len(hands)
    /\ MapHandToParameters(hands[idx], gestures[idx])
    /\ all_params' = KeepLast(all_params, params')
    /\ returned' = Append(returned, params')
    /\ idx' = idx + 1
    /\ UNCHANGED <<directVars, pc, hands, gestures, frame_start, updates,
                   engineVars, pureVars>>

\* Engine.update(parameters) at time clock
EngineUpdate(parameters) ==
    IF RateLimited(clock, last_update_time)
    THEN UNCHANGED <<last_update_time, sent, send_times>>
    ELSE /\ last_update_time' = clock
         /\ sent' = Messages(parameters)
         /\ send_times' = Append(send_times, clock)

\* lines 70-71: if hands: self.audio_engine.update(all_params)
UpdateIfHands ==
    IF Len(hands) > 0
    THEN /\ updates' = Append(updates, all_params)
         /\ EngineUpdate(all_params)
    ELSE UNCHANGED <<updates, last_update_time, sent, send_times>>

\* the zip loop is over: lines 70-71
UpdateAudio ==
    /\ pc = "map"
    /\ idx > Len(hands)
    /\ UpdateIfHands
    /\ pc' = "display"
    /\ UNCHANGED <<mapperVars, directVars, hands, gestures, idx, all_params,
                   frame_start, returned, clock, pureVars>>

\* lines 75-112: the frame is drawn and no key or a toggle key was pressed
NextIteration ==
    /\ pc = "display"
    /\ pc' = "read"
    /\ UNCHANGED <<mapperVars, directVars, hands, gestures, idx, all_params,
                   frame_start, returned, updates, engineVars, pureVars>>

\* lines 94-96 and 117-118: 'q' was pressed
Quit ==
    /\ pc = "display"
    /\ pc' = "done"
    /\ UNCHANGED <<mapperVars, directVars, hands, gestures, idx, all_params,
                   frame_start, returned, updates, engineVars, pureVars>>

Init == InitAll

Next ==
    \/ Tick
    \/ ReadFrame
    \/ ReadFail
    \/ MapNextHand
    \/ UpdateAudio
    \/ NextIteration
    \/ Quit

Spec == Init /\ [][Next]_vars

----------------------------------------------------------------------------
(* Reference definitions used by the properties *)

\* the last n elements of a sequence (all of it when it is shorter)
LastN(seq, n) ==
    IF Len(seq) <= n THEN seq ELSE SubSeq(seq, Len(seq) - n + 1, Len(seq))

\* the clamped linear map of [a, b] onto [lo, hi] for a < b
Linear(v, a, b, lo, hi) ==
    IF RLe(v, a) THEN lo
    ELSE IF RLe(b, v) THEN hi
    ELSE RAdd(lo, RDiv(RMul(RSub(v, a), RSub(hi, lo)), RSub(b, a)))

\* the arithmetic mean of a non-empty sequence of points
RECURSIVE PointSum(_)
PointSum(ps) ==
    IF Len(ps) = 0 THEN <<RInt(0), RInt(0), RInt(0)>>
    ELSE LET rest == PointSum(Tail(ps))
         IN  <<RAdd(ps[1][1], rest[1]), RAdd(ps[1][2], rest[2]),
               RAdd(ps[1][3], rest[3])>>

PointMean(ps) ==
    LET sum == PointSum(ps)
    IN  <<RDiv(sum[1], RInt(Len(ps))), RDiv(sum[2], RInt(Len(ps))),
          RDiv(sum[3], RInt(Len(ps)))>>

\* the centroids of the direct calls made so far
PushedCenters == [i \in 1..Len(pushed) |-> pushed[i].center]

\* the names of the direct calls made so far whose confidence exceeded 0.6
RECURSIVE RecordedNames(_)
RecordedNames(ps) ==
    IF Len(ps) = 0 THEN << >>
    ELSE LET before == RecordedNames(SubSeq(ps, 1, Len(ps) - 1))
             last == ps[Len(ps)].gesture
         IN  IF RLt(Rat(6, 10), last.confidence)
             THEN Append(before, last.name) ELSE before

\* the instrument table of the specification
TableSound(name) ==
    CASE name = "open_palm" -> 0
      [] name = "fist" -> 1
      [] name = "peace_sign" -> 2
      [] name = "thumbs_up" -> 3
      [] name = "pointing" -> 4
      [] OTHER -> 0

----------------------------------------------------------------------------
(* Properties *)

\* C1: a call returns the key sound if and only if the gesture's confidence
\* is strictly greater than 0.6; then the name is appended to the gesture
\* history and sound is the table value (0 for a name outside the table);
\* otherwise, at exactly 0.6 too, sound is absent and the history unchanged.
C1_SoundIffConfident ==
    [][ calls' = calls + 1 =>
          LET g == pushed'[Len(pushed')].gesture
              recorded == RLt(Rat(6, 10), g.confidence)
          IN  /\ ("sound" \in DOMAIN params') <=> recorded
              /\ recorded =>
                    /\ params'["sound"] = TableSound(g.name)
                    /\ gesture_buffer' = LastN(Append(gesture_buffer, g.name), 5)
              /\ ~recorded => gesture_buffer' = gesture_buffer
      ]_vars

\* a call with confidence exactly 0.6 came after a recorded call of a name
\* outside the table: no sound, history still the one recorded name
C1_Witness ==
    /\ calls = 2
    /\ pushed[2].gesture.confidence = Rat(6, 10)
    /\ "sound" \notin DOMAIN params
    /\ gesture_buffer = <<"wave">>
    /\ prev_call[1].params["sound"] = 0

\* C2: each buffer holds at most 5 elements and equals the most recent
\* pushes in push order (a push onto a full buffer evicts exactly the
\* oldest element).
C2_BuffersAreLastPushes ==
    /\ Len(position_buffer) <= 5
    /\ Len(gesture_buffer) <= 5
    /\ position_buffer = LastN(PushedCenters, 5)
    /\ gesture_buffer = LastN(RecordedNames(pushed), 5)

\* six recorded pushes: both buffers are full and have evicted their first
\* element, which differed from the second
C2_Witness ==
    /\ Len(pushed) = 6
    /\ Len(RecordedNames(pushed)) = 6
    /\ pushed[1].center # pushed[2].center
    /\ pushed[1].gesture.name # pushed[2].gesture.name
    /\ Len(position_buffer) = 5
    /\ Len(gesture_buffer) = 5
    /\ position_buffer[1] = pushed[2].center
    /\ gesture_buffer[1] = pushed[2].gesture.name

\* the five profile scores of the hand under classification
ProfileScores ==
    [i \in 1..Len(gesture_profiles) |->
        MatchGesture(ExtractFeatures(arg), gesture_profiles[i])]

\* the greatest of the five scores
MaxProfileScore ==
    CHOOSE m \in {ProfileScores[i] : i \in 1..Len(gesture_profiles)} :
        \A i \in 1..Len(gesture_profiles) : RLe(ProfileScores[i], m)

ProfileIndex(name) ==
    CHOOSE i \in 1..Len(gesture_profiles) : gesture_profiles[i].name = name

ProfileNames == {gesture_profiles[i].name : i \in 1..Len(gesture_profiles)}

\* C3: every profile's score lies in [0,1]; classify returns the maximum of
\* the five scores with the name of a profile attaining it, or "unknown"
\* with confidence 0 when no profile scores above 0.
C3_ConfidenceIsMaxScore ==
    ret # << >> =>
        /\ \A i \in 1..Len(gesture_profiles) :
              RLe(RInt(0), ProfileScores[i]) /\ RLe(ProfileScores[i], RInt(1))
        /\ ret.confidence = MaxProfileScore
        /\ IF RLt(RInt(0), MaxProfileScore)
           THEN /\ ret.name \in ProfileNames
                /\ ProfileScores[ProfileIndex(ret.name)] = MaxProfileScore
           ELSE ret.name = "unknown" /\ ret.confidence = RInt(0)

\* a hand with spread 0: open_palm's range entry is missed by 0.6, its
\* partial credit is cut off at 0 and open_palm scores 0, while fist scores 1
C3_Witness ==
    /\ ret # << >>
    /\ arg.finger_spread = RInt(0)
    /\ ProfileScores[1] = RInt(0)
    /\ ret.name = "fist"
    /\ ret.confidence = RInt(1)

\* C4: among profiles that tie for the greatest score, classify returns the
\* first in table order: every earlier profile scores strictly less than
\* the returned one and no later profile scores more.
C4_FirstProfileWinsTies ==
    (ret # << >> /\ ret.name \in ProfileNames) =>
        LET w == ProfileIndex(ret.name)
        IN  /\ \A j \in 1..(w - 1) : RLt(ProfileScores[j], ProfileScores[w])
            /\ \A j \in (w + 1)..Len(gesture_profiles) :
                  RLe(ProfileScores[j], ProfileScores[w])

\* a hand that fully matches both fist and pointing is labelled fist
C4_Witness ==
    /\ ret # << >>
    /\ ProfileScores[2] = RInt(1)
    /\ ProfileScores[5] = RInt(1)
    /\ ret.name = "fist"

\* labels of the gesture buffer, their counts and occurrences
BufferLabels == {gesture_buffer[i] : i \in 1..Len(gesture_buffer)}
Occurrences(label) == {i \in 1..Len(gesture_buffer) : gesture_buffer[i] = label}
MaxCount ==
    CHOOSE m \in {Cardinality(Occurrences(l)) : l \in BufferLabels} :
        \A l \in BufferLabels : Cardinality(Occurrences(l)) <= m
TopLabels == {l \in BufferLabels : Cardinality(Occurrences(l)) = MaxCount}
FirstIndex(label) ==
    CHOOSE i \in Occurrences(label) : \A j \in Occurrences(label) : i <= j
LastIndex(label) ==
    CHOOSE i \in Occurrences(label) : \A j \in Occurrences(label) : j <= i

\* C5 as stated: among the labels with the highest count the result is the
\* one whose running count reaches that count first in a left-to-right
\* tally, that is, whose last occurrence comes first.
C5_TallyFirstWins ==
    ret # << >> =>
        IF Len(gesture_buffer) = 0 THEN ret.value = "None"
        ELSE /\ ret.value \in TopLabels
             /\ \A l \in TopLabels : LastIndex(ret.value) <= LastIndex(l)

\* C5 amended: None on an empty buffer; otherwise a label with the highest
\* count, and among several such labels the one whose first occurrence in
\* the buffer is the earliest.
C5_FirstOccurrenceWins ==
    ret # << >> =>
        IF Len(gesture_buffer) = 0 THEN ret.value = "None"
        ELSE /\ ret.value \in TopLabels
             /\ \A l \in TopLabels : FirstIndex(ret.value) <= FirstIndex(l)

\* on [a, b, b, a] the result is a, although b reaches the count 2 first
C5_Witness ==
    /\ ret # << >>
    /\ gesture_buffer = <<"open_palm", "fist", "fist", "open_palm">>
    /\ ret.value = "open_palm"

\* C8: with in_min <= in_max, _map_range is the clamped linear map, with the
\* midpoint of the output range when in_max = in_min; it is non-decreasing
\* in value when out_min < out_max, non-increasing when out_min > out_max,
\* and constant below in_min and above in_max.
C8_MapRangeClampedLinear ==
    ret # << >> =>
        /\ RLt(arg.in_min, arg.in_max) =>
              ret.r1 = Linear(arg.value, arg.in_min, arg.in_max,
                              arg.out_min, arg.out_max)
        /\ arg.in_min = arg.in_max =>
              ret.r1 = RDiv(RAdd(arg.out_min, arg.out_max), RInt(2))
        /\ RLe(arg.value, arg.value2) =>
              /\ RLt(arg.out_min, arg.out_max) => RLe(ret.r1, ret.r2)
              /\ RLt(arg.out_max, arg.out_min) => RLe(ret.r2, ret.r1)
        /\ (RLe(arg.value, arg.in_min) /\ RLe(arg.value2, arg.in_min)) =>
              ret.r1 = ret.r2
        /\ (RLe(arg.in_max, arg.value) /\ RLe(arg.in_max, arg.value2)) =>
              ret.r1 = ret.r2

\* an inverted output range with one value below in_min and one above
\* in_max: the results are the two ends of the output range
C8_Witness ==
    /\ ret # << >>
    /\ RLt(arg.value, arg.in_min)
    /\ RLt(arg.in_max, arg.value2)
    /\ RLt(arg.in_min, arg.in_max)
    /\ RLt(arg.out_max, arg.out_min)
    /\ ret.r1 = arg.out_min
    /\ ret.r2 = arg.out_max

\* the mean of the last min(n, 5) centroids passed to the n direct calls
WindowMean == PointMean(LastN(PushedCenters, 5))

\* C6: tempo is exactly (TEMPO_MIN + TEMPO_MAX) / 2 = 130 when the position
\* buffer holds fewer than 2 samples after the push (the first call);
\* otherwise it is the map of [0, 0.1] onto [60, 200] of the distance
\* between the smoothed position and the second-most-recent raw sample.
C6_TempoFromMotion ==
    calls > 0 =>
        IF Len(pushed) < 2
        THEN params.tempo = RInt(130)
        ELSE params.tempo =
                Linear(Dist(WindowMean, pushed[Len(pushed) - 1].center),
                       RInt(0), Rat(1, 10), RInt(60), RInt(200))

\* a later call whose motion lies inside (0, 0.1): tempo is strictly between
\* the ends of its range and is not the midpoint
C6_Witness ==
    /\ calls >= 2
    /\ RLt(RInt(60), params.tempo)
    /\ RLt(params.tempo, RInt(200))
    /\ params.tempo # RInt(130)
    /\ pushed[Len(pushed)].center # pushed[Len(pushed) - 1].center

\* C7: on the n-th call the smoothed position behind volume, pitch and
\* reverb is the arithmetic mean of the last min(n, 5) centroids, the
\* current one included; a centroid pushed six or more calls ago has no
\* part in it.
C7_SmoothedIsWindowMean ==
    calls > 0 =>
        /\ smoothed_pos = WindowMean
        /\ params.volume =
              Linear(WindowMean[2], Rat(1, 10), Rat(9, 10), RInt(1), RInt(0))
        /\ params.pitch =
              Linear(WindowMean[1], Rat(1, 10), Rat(9, 10), RInt(50), RInt(2000))
        /\ params.reverb =
              Linear(WindowMean[3], Rat(-1, 2), Rat(1, 2), RInt(0), RInt(1))

\* the sixth call: the first centroid is out of the mean, and the mean of
\* all six centroids would have given another volume
C7_Witness ==
    /\ Len(pushed) = 6
    /\ smoothed_pos = PointMean(SubSeq(PushedCenters, 2, 6))
    /\ smoothed_pos # PointMean(PushedCenters)
    /\ params.volume #
          Linear(PointMean(PushedCenters)[2], Rat(1, 10), Rat(9, 10),
                 RInt(1), RInt(0))

\* C9: a smoothed position with y <= HAND_Y_MIN and x <= HAND_X_MIN gives
\* volume VOLUME_MAX and pitch PITCH_MIN; y >= HAND_Y_MAX gives VOLUME_MIN;
\* and of two consecutive calls the one with the smaller smoothed y never
\* has the smaller volume.
C9_VolumeInvertedPitchDirect ==
    calls > 0 =>
        /\ (RLe(smoothed_pos[2], Rat(1, 10)) /\ RLe(smoothed_pos[1], Rat(1, 10)))
              => (params.volume = RInt(1) /\ params.pitch = RInt(50))
        /\ RLe(Rat(9, 10), smoothed_pos[2]) => params.volume = RInt(0)
        /\ prev_call # << >> =>
              /\ RLt(smoothed_pos[2], prev_call[1].smoothed[2])
                    => RLe(prev_call[1].params.volume, params.volume)
              /\ RLt(prev_call[1].smoothed[2], smoothed_pos[2])
                    => RLe(params.volume, prev_call[1].params.volume)

\* the hand has moved up into the top-left corner: full volume, lowest
\* pitch, and the call before, lower in the frame, was quieter
C9_Witness ==
    /\ calls >= 2
    /\ RLe(smoothed_pos[2], Rat(1, 10))
    /\ RLe(smoothed_pos[1], Rat(1, 10))
    /\ params.volume = RInt(1)
    /\ params.pitch = RInt(50)
    /\ RLt(smoothed_pos[2], prev_call[1].smoothed[2])
    /\ RLt(prev_call[1].params.volume, params.volume)

\* the buffer a sequence of pushes leaves, from a given buffer
RECURSIVE PushAll(_, _)
PushAll(buf, xs) ==
    IF Len(xs) = 0 THEN buf
    ELSE PushAll(LastN(Append(buf, xs[1]), 5), Tail(xs))

RECURSIVE RecordedOf(_)
RecordedOf(gs) ==
    IF Len(gs) = 0 THEN << >>
    ELSE IF RLt(Rat(6, 10), gs[1].confidence)
         THEN <<gs[1].name>> \o RecordedOf(Tail(gs))
         ELSE RecordedOf(Tail(gs))

\* C10: in an iteration every detected hand is mapped, in detection order,
\* by the one shared mapper (the buffers after the loop are the buffers of
\* the frame's start with every hand pushed in order); update is not called
\* before the loop is over, is then called exactly once, with what the map
\* call of the last hand returned, when the frame has a hand, and is not
\* called when it has none.
C10_UpdateOncePerFrameLastHand ==
    /\ pc = "map" => updates = << >>
    /\ (pc = "map" /\ idx > Len(hands)) \/ pc = "display" =>
          /\ Len(returned) = Len(hands)
          /\ position_buffer =
                PushAll(frame_start.position,
                        [i \in 1..Len(hands) |-> hands[i].center])
          /\ gesture_buffer =
                PushAll(frame_start.gesture, RecordedOf(gestures))
    /\ pc = "display" =>
          IF Len(hands) > 0
          THEN updates = << returned[Len(hands)] >>
          ELSE updates = << >>

\* a frame with two hands, the first recorded with a sound, the second not:
\* the one update call carries the second hand's parameters, without sound
C10_Witness ==
    /\ pc = "display"
    /\ Len(hands) = 2
    /\ "sound" \in DOMAIN returned[1]
    /\ "sound" \notin DOMAIN returned[2]
    /\ returned[1] # returned[2]
    /\ updates = << returned[2] >>
    /\ Len(position_buffer) >= 2

----------------------------------------------------------------------------
(* GestureClassifier._extract_features on landmarks: lines 75-92 and 123 *)

\* a float64 quotient: numpy divides by zero without raising, giving inf
\* (nan for 0/0) and a RuntimeWarning; the dividends here are norms, >= 0
FloatDiv(a, b) ==
    IF b = RInt(0)
    THEN (IF a = RInt(0) THEN [kind |-> "nan"] ELSE [kind |-> "inf"])
    ELSE [kind |-> "finite", value |-> RDiv(a, b)]

\* hand_size = np.linalg.norm(middle_tip - wrist)
HandSize(lm) == Dist(lm.middle_tip, lm.wrist)

\* the normalized distances of lines 88-92 and index_middle_spread of
\* line 123, from the wrist and the five fingertips
NormalizedDistances(lm) ==
    LET hand_size == HandSize(lm)
    IN  [thumb_dist |-> FloatDiv(Dist(lm.thumb_tip, lm.wrist), hand_size),
         index_dist |-> FloatDiv(Dist(lm.index_tip, lm.wrist), hand_size),
         middle_dist |-> FloatDiv(Dist(lm.middle_tip, lm.wrist), hand_size),
         ring_dist |-> FloatDiv(Dist(lm.ring_tip, lm.wrist), hand_size),
         pinky_dist |-> FloatDiv(Dist(lm.pinky_tip, lm.wrist), hand_size),
         index_middle_spread |->
            FloatDiv(Dist(lm.index_tip, lm.middle_tip), hand_size)]

\* positions a landmark can take
LandmarkPoints == {Point(5, 5, 0), Point(5, 3, 0), Point(6, 4, 1)}

\* positions[WRIST], positions[THUMB_TIP], ..., positions[PINKY_TIP]
LandmarkSets ==
    [wrist : LandmarkPoints, thumb_tip : LandmarkPoints,
     index_tip : LandmarkPoints, middle_tip : LandmarkPoints,
     ring_tip : LandmarkPoints, pinky_tip : LandmarkPoints]

InitExtract ==
    /\ InitMapper /\ InitDirect /\ InitLoop /\ InitEngine
    /\ ret = << >>
    /\ arg \in LandmarkSets

ApplyExtract ==
    /\ ret = << >>
    /\ ret' = NormalizedDistances(arg)
    /\ UNCHANGED <<mapperVars, directVars, loopVars, engineVars, arg>>

SpecExtract == InitExtract /\ [][ApplyExtract]_vars

\* C11: feature extraction never divides by zero: each of thumb_dist ..
\* pinky_dist and index_middle_spread is a finite quotient, also when the
\* middle fingertip coincides with the wrist (hand_size = 0).
C11_NoDivisionByZero ==
    ret # << >> =>
        \A k \in DOMAIN ret : ret[k].kind = "finite"

----------------------------------------------------------------------------
(* Engine.update called at arbitrary times *)

MaxEngineClock == 5
MaxEngineCalls == 4

\* parameter sets passed to update
EngineParams ==
    { [volume |-> RInt(1), pitch |-> RInt(50)],
      ("sound" :> 1) @@ [volume |-> RInt(0), pitch |-> RInt(2000)] }

\* time passes between calls
EngineTick ==
    /\ clock < MaxEngineClock
    /\ clock' = clock + 1
    /\ UNCHANGED <<mapperVars, directVars, loopVars, last_update_time, sent,
                   send_times, pureVars>>

\* one call of Engine.update(parameters)
EngineCall ==
    /\ calls < MaxEngineCalls
    /\ \E p \in EngineParams :
          /\ EngineUpdate(p)
          /\ arg' = p
    /\ calls' = calls + 1
    /\ UNCHANGED <<mapperVars, pushed, prev_call, loopVars, clock, ret>>

SpecEngine == InitAll /\ [][EngineTick \/ EngineCall]_vars

\* every sending time is at least 2 ticks (1/30 s) after the one before
\* it, the first one after the construction at time 0
SpacedApart(times) ==
    \A i \in 1..Len(times) :
        times[i] - (IF i = 1 THEN 0 ELSE times[i - 1]) >= 2

\* C12: an update call made less than 1/30 s (2 ticks) after
\* last_update_time sends nothing and leaves last_update_time unchanged; a
\* call made at or after that interval sets last_update_time to the current
\* time and sends; so sending calls are never less than 1/30 s apart and a
\* first call within 1/30 s of construction is dropped.
C12_UpdateRateLimited ==
    [][ calls' = calls + 1 =>
          /\ IF clock - last_update_time < 2
             THEN /\ last_update_time' = last_update_time
                  /\ send_times' = send_times
                  /\ sent' = sent
             ELSE /\ last_update_time' = clock
                  /\ send_times' = Append(send_times, clock)
                  /\ Len(sent') > 0
          /\ SpacedApart(send_times')
      ]_vars

\* four calls of which two sent, exactly 1/30 s apart
C12_Witness ==
    /\ calls = 4
    /\ send_times = <<2, 4>>
    /\ last_update_time = 4

----------------------------------------------------------------------------
(* classify on every feature vector, its result passed on to the mapper as
   run does *)

\* main.py line 67 on the classified hand
MapClassified ==
    /\ ret # << >>
    /\ calls = 0
    /\ MapHandToParameters(arg, ret)
    /\ calls' = 1
    /\ pushed' = Append(pushed, [center |-> arg.center, gesture |-> ret])
    /\ UNCHANGED <<prev_call, loopVars, engineVars, pureVars>>

SpecClassifyMap == InitClassify /\ [][ApplyClassify \/ MapClassified]_vars

\* the elements of a sequence
Range(seq) == {seq[i] : i \in 1..Len(seq)}

\* C13: for every feature vector (all keys present, boolean flags,
\* finger_spread in [0,1]) classify returns a confidence of at least 1/3 and
\* one of the five profile names, since open_palm or fist always scores on
\* thumb_extended; "unknown" with confidence 0 is never returned and never
\* enters the gesture history.
C13_NeverUnknown ==
    /\ ret # << >> =>
          /\ RLe(Rat(1, 3), ret.confidence)
          /\ ret.name \in ProfileNames
          /\ \/ EntryScore(ExtractFeatures(arg), [kind |-> "bool",
                    key |-> "thumb_extended", expected |-> TRUE]) = RInt(1)
             \/ EntryScore(ExtractFeatures(arg), [kind |-> "bool",
                    key |-> "thumb_extended", expected |-> FALSE]) = RInt(1)
    /\ "unknown" \notin Range(gesture_buffer)

\* a hand on which only one entry of open_palm or fist matches in full: it is
\* classified below the confidence threshold, still with a profile name, and
\* the mapper records nothing for it
C13_Witness ==
    /\ ret # << >>
    /\ RLt(ret.confidence, GESTURE_CONFIDENCE_MIN)
    /\ ret.name \in {"open_palm", "fist"}
    /\ calls = 1
    /\ gesture_buffer = << >>

----------------------------------------------------------------------------
(* map_hand_to_parameters on hands outside the active rectangle, of varying
   size, with gestures in and out of the sound table *)

MaxParamCalls == 3

\* a hand with the given centre and standard deviation of its fingertips
SizedHand(center, tips_std) ==
    MkHand("Right", center, tips_std, FALSE, FALSE, FALSE, FALSE, FALSE,
           FALSE, FALSE, Rat(2, 10))

ParamInputs ==
    { [hand |-> SizedHand(c, sd), gesture |-> g] :
        c \in {Point(-1, 12, -6), Point(10, 0, 6)},
        sd \in {RInt(0), Rat(1, 20), Rat(1, 2)},
        g \in {MkGesture("wave", Rat(9, 10)), MkGesture("pointing", RInt(1)),
               MkGesture("fist", Rat(1, 2))} }

ParamCall == \E in \in ParamInputs : DirectCall(in, MaxParamCalls)

SpecParams == InitAll /\ [][ParamCall]_vars

\* lo <= v <= hi
Within(v, lo, hi) == RLe(lo, v) /\ RLe(v, hi)

\* C14: every returned parameter set has the keys volume, pitch, reverb,
\* tempo and hand_size, possibly sound and no other key; volume, pitch,
\* reverb and tempo lie in their configured ranges, hand_size in [0, 1] and
\* sound, when present, in 0..4.
C14_ParamsKeysAndRanges ==
    calls > 0 =>
        /\ {"volume", "pitch", "reverb", "tempo", "hand_size"}
              \subseteq DOMAIN params
        /\ DOMAIN params \subseteq
              {"volume", "pitch", "reverb", "tempo", "hand_size", "sound"}
        /\ Within(params.volume, VOLUME_MIN, VOLUME_MAX)
        /\ Within(params.pitch, PITCH_MIN, PITCH_MAX)
        /\ Within(params.reverb, REVERB_MIN, REVERB_MAX)
        /\ Within(params.tempo, TEMPO_MIN, TEMPO_MAX)
        /\ Within(params.hand_size, RInt(0), RInt(1))
        /\ "sound" \in DOMAIN params => params.sound \in 0..4

\* a hand resting outside the rectangle on every axis, with widely spread
\* fingertips and a confident gesture missing from the sound table: every
\* value sits on an end of its range
C14_Witness ==
    /\ calls >= 2
    /\ params.hand_size = RInt(1)
    /\ params.tempo = TEMPO_MIN
    /\ params.volume = VOLUME_MIN
    /\ params.pitch = PITCH_MIN
    /\ params.reverb = REVERB_MIN
    /\ "sound" \in DOMAIN params
    /\ params.sound = 0

----------------------------------------------------------------------------
(* the lifetime of the rolling buffers in the frame loop *)

\* the step is a call of map_hand_to_parameters made by run
IsMapStep == pc = "map" /\ idx' = idx + 1

\* C15: the rolling buffers are never cleared or shrunk: only a map call
\* changes them, neither length ever decreases, and during a frame with no
\* detected hands both are what they were when the frame began.  So the
\* midpoint tempo is returned only by a call that finds the position buffer
\* empty, which is the first call ever made; every later call, also after
\* frames without a hand, takes tempo from the distance between the new
\* smoothed position and the newest sample retained from before.
C15_BuffersRetained ==
    /\ [](pc \in {"map", "display"} /\ hands = << >> =>
            /\ position_buffer = frame_start.position
            /\ gesture_buffer = frame_start.gesture)
    /\ [][ /\ Len(position_buffer') >= Len(position_buffer)
           /\ Len(gesture_buffer') >= Len(gesture_buffer)
           /\ ~IsMapStep => UNCHANGED <<position_buffer, gesture_buffer>>
           /\ IsMapStep =>
                 IF position_buffer = << >>
                 THEN params'.tempo = RInt(130)
                 ELSE params'.tempo =
                         Linear(Dist(smoothed_pos',
                                     position_buffer[Len(position_buffer)]),
                                RInt(0), Rat(1, 10), RInt(60), RInt(200))
         ]_vars

\* a frame without hands, read after two calls the later of which took its
\* tempo from motion: both buffers are still as the calls left them
C15_Witness ==
    /\ pc = "display"
    /\ hands = << >>
    /\ Len(position_buffer) = 2
    /\ Len(gesture_buffer) = 1
    /\ position_buffer = frame_start.position
    /\ gesture_buffer = frame_start.gesture
    /\ params.tempo # RInt(130)

=============================================================================
